---- MODULE Spec2Model ----
(***************************************************************************)
(* Model of graph.ts: flatten (inlining of nested groups with socket       *)
(* redirects), buildEvalGraph (evaluation order by an explicit stack) and  *)
(* the evaluator closure it returns.                                       *)
(*                                                                         *)
(* JavaScript objects and Maps keep the insertion order of their string    *)
(* keys, and `for (k in o)` walks them in that order, so every map of the  *)
(* code (incoming, redirects, results, input records) is a sequence of     *)
(* [key, val] entries with distinct keys.  `undefined` is the empty        *)
(* sequence where a value is optional (Opt values are <<>> or <<v>>).      *)
(* Objects compared by identity (evalOrder.includes) are named by their    *)
(* index in the flat array that holds them.                                *)
(***************************************************************************)
EXTENDS Integers, Sequences, FiniteSets, TLC

VARIABLES
    graph,      \* the NodeGraph handed to flatten (its element sequence)
    targetIds,  \* the targetIds handed to buildEvalGraph
    pc,         \* "flatten" | "build" | "bound" | "eval" | "done" | "failed"
    error,      \* the Error thrown: [kind, id]
    frames,     \* call stack of flatten: [graph, i, flattened, redirects, fresh]
    round,      \* 1: flatten(graph); 2: flatten applied to its own result
    flat1,      \* result of the first flatten call
    flat,       \* the flat array handed to buildEvalGraph
    ti,         \* position of the outer loop of buildEvalGraph in targetIds
    stack,      \* stack of the traversal (indices into flat)
    evalOrder,  \* evalOrder (indices into flat)
    registry,   \* name of the registry passed to the evaluator
    ei,         \* position of the evaluator's loop in evalOrder
    results,    \* the results Map of the current evaluator run
    calls,      \* history: the calls of evaluate of the current run, in call
                \* order: [index, input, output]
    run,        \* number of invocations of the evaluator so far
    results1,   \* the Map returned by the previous invocation
    copies      \* for each record of flat: is it a record made by flatten?

vars == <<graph, targetIds, pc, error, frames, round, flat1, flat, ti, stack,
          evalOrder, registry, ei, results, calls, run, results1, copies>>

----------------------------------------------------------------------------
(* Ordered maps: objects, Map                                              *)

Has(m, k) == \E i \in DOMAIN m : m[i].key = k

\* m[k] / m.get(k): <<>> for undefined, <<v>> for the value
Get(m, k) ==
    IF Has(m, k) THEN << m[CHOOSE i \in DOMAIN m : m[i].key = k].val >> ELSE <<>>

\* m[k] = v / m.set(k, v): an existing key keeps its position
Put(m, k, v) ==
    IF Has(m, k)
    THEN [i \in DOMAIN m |-> IF m[i].key = k THEN [key |-> k, val |-> v] ELSE m[i]]
    ELSE Append(m, [key |-> k, val |-> v])

Keys(m) == { m[i].key : i \in DOMAIN m }

Range(s) == { s[i] : i \in DOMAIN s }

----------------------------------------------------------------------------
(* Graph element model                                                     *)

Ref(id, s) == [elementId |-> id, socket |-> s]

Wire(k, id, s) == [key |-> k, val |-> Ref(id, s)]

\* config is `unknown` in the code; the model's node types read a number or
\* an operator from it
NumConfig(n) == [num |-> n, op |-> ""]
OpConfig(o) == [num |-> 0, op |-> o]

NodeElement(id, typeId, config, incoming) ==
    [elementType |-> "node", elementId |-> id, typeId |-> typeId,
     config |-> config, incoming |-> incoming]

GroupElement(id, incoming, g) ==
    [elementType |-> "group", elementId |-> id, incoming |-> incoming, graph |-> g]

GroupInputElement(id, exports) ==
    [elementType |-> "group-input", elementId |-> id, exports |-> exports]

GroupOutputElement(id, exports) ==
    [elementType |-> "group-output", elementId |-> id, exports |-> exports]

FrameElement(id, childrenIds) ==
    [elementType |-> "frame", elementId |-> id, childrenIds |-> childrenIds]

GroupInputExport(id) == [id |-> id]

GroupOutputExport(id, target) == [id |-> id, target |-> target]

----------------------------------------------------------------------------
(* flatten                                                                 *)

\* Array.prototype.find by elementType: index of the first match, 0 if none
FindType(g, t) ==
    IF \E i \in DOMAIN g : g[i].elementType = t
    THEN CHOOSE i \in DOMAIN g :
            /\ g[i].elementType = t
            /\ \A j \in 1..(i - 1) : g[j].elementType # t
    ELSE 0

\* the template string `${elementId}::${socket}` that keys the redirects
RedirectKey(id, s) == <<id, s>>

\* groupIn.exports.forEach(e => redirects.set(`${groupIn.elementId}::${e.id}`,
\*                                           element.incoming[e.id]))
RECURSIVE SetInputRedirects(_, _, _, _)
SetInputRedirects(redirects, groupIn, group, n) ==
    IF n > Len(groupIn.exports) THEN redirects
    ELSE SetInputRedirects(
            Put(redirects, RedirectKey(groupIn.elementId, groupIn.exports[n].id),
                Get(group.incoming, groupIn.exports[n].id)),
            groupIn, group, n + 1)

\* the output redirects keyed by the marker's id in place of the group's
RECURSIVE SetOutputRedirects_MarkerKey(_, _, _, _)
SetOutputRedirects_MarkerKey(redirects, groupOut, group, n) ==
    IF n > Len(groupOut.exports) THEN redirects
    ELSE SetOutputRedirects_MarkerKey(
            Put(redirects, RedirectKey(groupOut.elementId, groupOut.exports[n].id),
                << groupOut.exports[n].target >>),
            groupOut, group, n + 1)

\* groupOut.exports.forEach(e => redirects.set(`${element.elementId}::${e.id}`,
\*                                            e.target))
RECURSIVE SetOutputRedirects(_, _, _, _)
SetOutputRedirects(redirects, groupOut, group, n) ==
    IF n > Len(groupOut.exports) THEN redirects
    ELSE SetOutputRedirects(
            Put(redirects, RedirectKey(group.elementId, groupOut.exports[n].id),
                << groupOut.exports[n].target >>),
            groupOut, group, n + 1)

\* redirects.get(`${incoming[socket].elementId}::${incoming[socket].socket}`):
\* <<>> when the key is unset or set to undefined
RedirectTo(redirects, ref) ==
    LET hit == Get(redirects, RedirectKey(ref.elementId, ref.socket))
    IN  IF hit = <<>> THEN <<>> ELSE hit[1]

\* one socket of the inner for-in loop
RewriteEntry(redirects, entry) ==
    IF RedirectTo(redirects, entry.val) # <<>>
    THEN [key |-> entry.key, val |-> RedirectTo(redirects, entry.val)[1]]
    ELSE entry

\* the callback of result.map: a copy of e with every redirected socket replaced
RewriteElement(redirects, e) ==
    [e EXCEPT !.incoming = [i \in DOMAIN e.incoming |->
                                RewriteEntry(redirects, e.incoming[i])]]

\* one round of the do-while loop: result.map(...)
RewritePass(redirects, result) ==
    [i \in DOMAIN result |-> RewriteElement(redirects, result[i])]

\* `changed` set only by a redirect that differs from the entry it replaces
Changed_IfDifferent(redirects, result) ==
    \E i \in DOMAIN result : \E j \in DOMAIN result[i].incoming :
        /\ RedirectTo(redirects, result[i].incoming[j].val) # <<>>
        /\ RedirectTo(redirects, result[i].incoming[j].val) # << result[i].incoming[j].val >>

\* the value of `changed` after one round
Changed(redirects, result) ==
    \E i \in DOMAIN result : \E j \in DOMAIN result[i].incoming :
        RedirectTo(redirects, result[i].incoming[j].val) # <<>>

\* const incoming = { ...e.incoming }; ... return changed ? { ...e, incoming } : e
\* which records of the array that one round returns are made by flatten:
\* those that were, and every element from the first one with a redirected
\* socket on (`changed` stays set for the rest of the round)
Copied(redirects, result, fresh) ==
    [i \in DOMAIN result |->
        \/ fresh[i]
        \/ \E k \in 1..i : \E j \in DOMAIN result[k].incoming :
                RedirectTo(redirects, result[k].incoming[j].val) # <<>>]

\* the elements of g, at every nesting level, with the incoming of each node
\* that has the id of one of `nodes` set to that node's incoming
RECURSIVE WriteBack(_, _)
WriteBack(g, nodes) ==
    [i \in DOMAIN g |->
        IF g[i].elementType = "group"
        THEN [g[i] EXCEPT !.graph = WriteBack(@, nodes)]
        ELSE IF g[i].elementType = "node"
                /\ \E k \in DOMAIN nodes : nodes[k].elementId = g[i].elementId
             THEN [g[i] EXCEPT !.incoming =
                    nodes[CHOOSE k \in DOMAIN nodes :
                            nodes[k].elementId = g[i].elementId].incoming]
             ELSE g[i]]

\* const incoming = e.incoming: the redirected sockets are assigned in the
\* incoming object of the input element
Written_InPlace(g, redirects, result) == WriteBack(g, RewritePass(redirects, result))

\* the input graph after one round: the round assigns sockets only in the
\* object `incoming`, made by the spread at the head of the callback, and
\* builds its records by spread; no object of the input is assigned to
Written(g, redirects, result) == g

\* unshift in place of push
Push_Front(arr, e) == <<e>> \o arr

\* flattened.push(element)
Push(arr, e) == Append(arr, e)

\* the locals of a call; fresh[k] tells whether flattened[k] is a record made
\* by the rewrite loop (TRUE) or an element object of the input (FALSE)
NewFrame(g) ==
    [graph |-> g, i |-> 1, flattened |-> <<>>, redirects |-> <<>>, fresh |-> <<>>]

Top == frames[Len(frames)]

Scanning == pc = "flatten" /\ frames # <<>> /\ Top.i <= Len(Top.graph)

Rewriting == pc = "flatten" /\ frames # <<>> /\ Top.i > Len(Top.graph)

SetTop(f) == [frames EXCEPT ![Len(frames)] = f]

FlattenFrame == UNCHANGED <<graph, targetIds, flat1, flat, round, ti, stack,
                            evalOrder, registry, ei, results, calls, run, results1, copies>>

\* if (element.elementType == "node") { flattened.push(element); continue; }
FlattenNode ==
    /\ Scanning
    /\ Top.graph[Top.i].elementType = "node"
    /\ frames' = SetTop([Top EXCEPT !.flattened = Push(@, Top.graph[Top.i]),
                                    !.fresh = Append(@, FALSE),
                                    !.i = @ + 1])
    /\ UNCHANGED <<pc, error>>
    /\ FlattenFrame

\* frames and group boundary markers are passed over
FlattenSkip ==
    /\ Scanning
    /\ Top.graph[Top.i].elementType \notin {"node", "group"}
    /\ frames' = SetTop([Top EXCEPT !.i = @ + 1])
    /\ UNCHANGED <<pc, error>>
    /\ FlattenFrame

\* a group with both markers: register its redirects, then call flatten(element)
FlattenGroup ==
    /\ Scanning
    /\ LET element == Top.graph[Top.i]
       IN  /\ element.elementType = "group"
           /\ LET gi == FindType(element.graph, "group-input")
                  go == FindType(element.graph, "group-output")
              IN  /\ gi # 0 /\ go # 0
                  /\ frames' = Append(
                        SetTop([Top EXCEPT !.redirects =
                            SetOutputRedirects(
                                SetInputRedirects(@, element.graph[gi], element, 1),
                                element.graph[go], element, 1)]),
                        NewFrame(element.graph))
    /\ UNCHANGED <<pc, error>>
    /\ FlattenFrame

\* a group that lacks a marker passed over like a frame
FlattenGroupFail_Skip ==
    /\ Scanning
    /\ LET element == Top.graph[Top.i]
       IN  /\ element.elementType = "group"
           /\ \/ FindType(element.graph, "group-input") = 0
              \/ FindType(element.graph, "group-output") = 0
    /\ frames' = SetTop([Top EXCEPT !.i = @ + 1])
    /\ UNCHANGED <<pc, error>>
    /\ FlattenFrame

\* if (!groupIn || !groupOut) throw new Error(`Group ${element.elementId} ...`)
FlattenGroupFail ==
    /\ Scanning
    /\ LET element == Top.graph[Top.i]
       IN  /\ element.elementType = "group"
           /\ \/ FindType(element.graph, "group-input") = 0
              \/ FindType(element.graph, "group-output") = 0
           /\ error' = [kind |-> "structural", id |-> element.elementId]
    /\ pc' = "failed"
    /\ frames' = <<>>
    /\ FlattenFrame

\* a round of the do-while loop that sets `changed`
FlattenRewrite ==
    /\ Rewriting
    /\ Changed(Top.redirects, Top.flattened)
    /\ frames' = SetTop([Top EXCEPT
                    !.flattened = RewritePass(Top.redirects, @),
                    !.fresh = Copied(Top.redirects, Top.flattened, @)])
    /\ graph' = Written(graph, Top.redirects, Top.flattened)
    /\ UNCHANGED <<pc, error>>
    /\ UNCHANGED <<targetIds, flat1, flat, round, ti, stack, evalOrder, registry,
                   ei, results, calls, run, results1, copies>>

\* the nodes of a nested call put in front of the caller's nodes
FlattenReturn_Prepend ==
    /\ Rewriting
    /\ ~Changed(Top.redirects, Top.flattened)
    /\ Len(frames) > 1
    /\ LET caller == frames[Len(frames) - 1]
           result == RewritePass(Top.redirects, Top.flattened)
       IN  frames' = [SubSeq(frames, 1, Len(frames) - 1) EXCEPT ![Len(frames) - 1] =
                        [caller EXCEPT !.flattened = result \o @,
                                       !.fresh = Top.fresh \o @, !.i = @ + 1]]
    /\ UNCHANGED <<pc, error>>
    /\ FlattenFrame

\* the last round of a nested call: flattened.push(...flatten(element)); continue
FlattenReturn ==
    /\ Rewriting
    /\ ~Changed(Top.redirects, Top.flattened)
    /\ Len(frames) > 1
    /\ LET caller == frames[Len(frames) - 1]
           result == RewritePass(Top.redirects, Top.flattened)
       IN  frames' = [SubSeq(frames, 1, Len(frames) - 1) EXCEPT ![Len(frames) - 1] =
                        [caller EXCEPT !.flattened = @ \o result,
                                       !.fresh = @ \o Top.fresh, !.i = @ + 1]]
    /\ UNCHANGED <<pc, error>>
    /\ FlattenFrame

\* a loop that ends after its first round, whatever `changed` says
FlattenDone_OnePass ==
    /\ Rewriting
    /\ Len(frames) = 1
    /\ flat' = RewritePass(Top.redirects, Top.flattened)
    /\ flat1' = IF round = 1 THEN flat' ELSE flat1
    /\ copies' = Copied(Top.redirects, Top.flattened, Top.fresh)
    /\ frames' = <<>>
    /\ pc' = "flattened"
    /\ UNCHANGED <<graph, targetIds, error, round, ti, stack, evalOrder,
                   registry, ei, results, calls, run, results1>>

\* the last round of the outermost call: return result
FlattenDone ==
    /\ Rewriting
    /\ ~Changed(Top.redirects, Top.flattened)
    /\ Len(frames) = 1
    /\ flat' = RewritePass(Top.redirects, Top.flattened)
    /\ flat1' = IF round = 1 THEN flat' ELSE flat1
    /\ copies' = Top.fresh
    /\ frames' = <<>>
    /\ pc' = "flattened"
    /\ UNCHANGED <<graph, targetIds, error, round, ti, stack, evalOrder,
                   registry, ei, results, calls, run, results1>>

\* flatten applied to its own result: flatten({ graph: flat })
Reflatten ==
    /\ pc = "flattened"
    /\ round = 1
    /\ round' = 2
    /\ frames' = << NewFrame(flat) >>
    /\ pc' = "flatten"
    /\ UNCHANGED <<graph, targetIds, error, flat1, flat, ti, stack, evalOrder,
                   registry, ei, results, calls, run, results1, copies>>

----------------------------------------------------------------------------
(* buildEvalGraph: the order                                               *)

\* graph.find((e) => e.elementId == id): index of the first match, 0 if none
Find(g, id) ==
    IF \E i \in DOMAIN g : g[i].elementId = id
    THEN CHOOSE i \in DOMAIN g :
            /\ g[i].elementId = id
            /\ \A j \in 1..(i - 1) : g[j].elementId # id
    ELSE 0

\* break in place of continue: nothing is pushed after an entry that is not found
Pushed_Break(g, top) ==
    LET found == [j \in DOMAIN g[top].incoming |->
                    Find(g, g[top].incoming[j].val.elementId)]
        stop == IF \E j \in DOMAIN found : found[j] = 0
                THEN CHOOSE j \in DOMAIN found :
                        found[j] = 0 /\ \A k \in 1..(j - 1) : found[k] # 0
                ELSE Len(found) + 1
    IN  SubSeq(found, 1, stop - 1)

\* the elements pushed for `top`, in the order of its incoming sockets; an
\* entry whose element is not found is passed over
Pushed(g, top) ==
    SelectSeq([j \in DOMAIN g[top].incoming |->
                    Find(g, g[top].incoming[j].val.elementId)],
              LAMBDA x : x # 0)

\* evalOrder.unshift(top)
Unshift(order, top) == <<top>> \o order

BuildFrame == UNCHANGED <<graph, frames, round, flat1, flat, registry, ei,
                          results, calls, run, results1, copies>>

\* an empty target list taken as a request for every element
BuildStart_AllWhenEmpty(ids) ==
    /\ pc = "flattened"
    /\ round = 1
    /\ targetIds' = ids
    /\ pc' = "build"
    /\ ti' = 1
    /\ stack' = <<>>
    /\ evalOrder' = IF ids = <<>> THEN [i \in DOMAIN flat |-> i] ELSE <<>>
    /\ UNCHANGED error
    /\ UNCHANGED <<graph, frames, round, flat1, flat, registry, ei, results,
                   calls, run, results1, copies>>

\* the call buildEvalGraph(flat, ids)
BuildStart(ids) ==
    /\ pc = "flattened"
    /\ round = 1
    /\ targetIds' = ids
    /\ pc' = "build"
    /\ ti' = 1
    /\ stack' = <<>>
    /\ evalOrder' = <<>>
    /\ UNCHANGED error
    /\ BuildFrame

\* next round of the for loop over targetIds: const stack = [element]
BuildTarget ==
    /\ pc = "build"
    /\ stack = <<>>
    /\ ti <= Len(targetIds)
    /\ Find(flat, targetIds[ti]) # 0
    /\ stack' = << Find(flat, targetIds[ti]) >>
    /\ ti' = ti + 1
    /\ UNCHANGED <<targetIds, pc, error, evalOrder>>
    /\ BuildFrame

\* continue in place of throw for a target that is not found
BuildTargetFail_Continue ==
    /\ pc = "build"
    /\ stack = <<>>
    /\ ti <= Len(targetIds)
    /\ Find(flat, targetIds[ti]) = 0
    /\ ti' = ti + 1
    /\ UNCHANGED <<targetIds, pc, error, stack, evalOrder>>
    /\ UNCHANGED <<graph, frames, round, flat1, flat, registry, ei, results, calls, run, results1, copies>>

\* if (!element) throw new Error(`Unable to find element with ID ${elementId}`)
BuildTargetFail ==
    /\ pc = "build"
    /\ stack = <<>>
    /\ ti <= Len(targetIds)
    /\ Find(flat, targetIds[ti]) = 0
    /\ error' = [kind |-> "lookup", id |-> targetIds[ti]]
    /\ pc' = "failed"
    /\ UNCHANGED <<targetIds, ti, stack, evalOrder>>
    /\ BuildFrame

\* no test of evalOrder.includes(top): a popped element is visited again
BuildSkip_Revisit ==
    /\ pc = "build"
    /\ stack # <<>>
    /\ stack[Len(stack)] \in Range(evalOrder)
    /\ evalOrder' = Unshift(evalOrder, stack[Len(stack)])
    /\ stack' = SubSeq(stack, 1, Len(stack) - 1) \o Pushed(flat, stack[Len(stack)])
    /\ UNCHANGED <<targetIds, pc, error, ti>>
    /\ BuildFrame

\* stack.pop() of an element already in the order: continue
BuildSkip ==
    /\ pc = "build"
    /\ stack # <<>>
    /\ stack[Len(stack)] \in Range(evalOrder)
    /\ stack' = SubSeq(stack, 1, Len(stack) - 1)
    /\ UNCHANGED <<targetIds, pc, error, ti, evalOrder>>
    /\ BuildFrame

\* an entry whose element is not found treated like a target that is not found
BuildVisit_Strict ==
    /\ pc = "build"
    /\ stack # <<>>
    /\ stack[Len(stack)] \notin Range(evalOrder)
    /\ evalOrder' = Unshift(evalOrder, stack[Len(stack)])
    /\ stack' = SubSeq(stack, 1, Len(stack) - 1) \o Pushed(flat, stack[Len(stack)])
    /\ IF Len(Pushed(flat, stack[Len(stack)])) < Len(flat[stack[Len(stack)]].incoming)
       THEN /\ pc' = "failed"
            /\ error' = [kind |-> "lookup",
                         id |-> LET incoming == flat[stack[Len(stack)]].incoming
                                IN  incoming[CHOOSE j \in DOMAIN incoming :
                                        Find(flat, incoming[j].val.elementId) = 0].val.elementId]
       ELSE UNCHANGED <<pc, error>>
    /\ UNCHANGED <<targetIds, ti>>
    /\ BuildFrame

\* stack.pop() of a new element: unshift it, push what its sockets name
BuildVisit ==
    /\ pc = "build"
    /\ stack # <<>>
    /\ stack[Len(stack)] \notin Range(evalOrder)
    /\ evalOrder' = Unshift(evalOrder, stack[Len(stack)])
    /\ stack' = SubSeq(stack, 1, Len(stack) - 1) \o Pushed(flat, stack[Len(stack)])
    /\ UNCHANGED <<targetIds, pc, error, ti>>
    /\ BuildFrame

\* return (registry) => { ... }
BuildDone ==
    /\ pc = "build"
    /\ stack = <<>>
    /\ ti > Len(targetIds)
    /\ pc' = "bound"
    /\ UNCHANGED <<targetIds, error, ti, stack, evalOrder>>
    /\ BuildFrame

----------------------------------------------------------------------------
(* Node types: what registry(typeId) returns                               *)

Desc(k, d) == [key |-> k, val |-> [default |-> d]]

\* type.input(config): the input sockets, in declaration order.
\*   const: ConstNode of the usage example, no input
\*   math:  MathNode of the usage example, a and b defaulting to 0
\*   sum:   a type whose sockets depend on its config (the number of terms)
\*          and that has two outputs, the sum and the number of terms
TypeInput(typeId, config) ==
    CASE typeId = "const" -> <<>>
      [] typeId = "math"  -> << Desc("a", 0), Desc("b", 0) >>
      [] typeId = "sum"   -> SubSeq(<< Desc("a", 5), Desc("b", 7) >>, 1, config.num)

\* a number read from an input record; an undefined input is outside the model
Num(input, k) == Get(input, k)[1][1]

\* type.evaluate(input, config): the output record
TypeEvaluate(typeId, input, config) ==
    CASE typeId = "const" -> << [key |-> "output", val |-> config.num] >>
      [] typeId = "math"  ->
            << [key |-> "output", val |->
                  CASE config.op = "+" -> Num(input, "a") + Num(input, "b")
                    [] config.op = "-" -> Num(input, "a") - Num(input, "b")
                    [] config.op = "*" -> Num(input, "a") * Num(input, "b")] >>
      [] typeId = "sum"   ->
            << [key |-> "output", val |->
                  IF config.num = 1 THEN Num(input, "a")
                  ELSE Num(input, "a") + Num(input, "b")],
               [key |-> "count", val |-> config.num] >>

----------------------------------------------------------------------------
(* buildEvalGraph: the evaluator closure                                   *)

\* does the wired socket find its producer's record in the results map?
Obtained(res, element, socket) ==
    Get(res, Get(element.incoming, socket)[1].elementId) # <<>>

\* a wired socket given the producer's field "output" whatever field the
\* wiring names
InputValue_OutputField(res, element, desc) ==
    IF Has(element.incoming, desc.key)
    THEN Get(Get(res, Get(element.incoming, desc.key)[1].elementId)[1], "output")
    ELSE << desc.val.default >>

\* an unwired socket given 0 in place of its declared default
InputValue_Zero(res, element, desc) ==
    IF Has(element.incoming, desc.key)
    THEN Get(Get(res, Get(element.incoming, desc.key)[1].elementId)[1],
             Get(element.incoming, desc.key)[1].socket)
    ELSE << 0 >>

\* input[socket] for one declared socket: result[incoming.socket] of the
\* producer when the socket is wired, else the descriptor's default
InputValue(res, element, desc) ==
    IF Has(element.incoming, desc.key)
    THEN Get(Get(res, Get(element.incoming, desc.key)[1].elementId)[1],
             Get(element.incoming, desc.key)[1].socket)
    ELSE << desc.val.default >>

\* a loop over the sockets of element.incoming after the loop over inputDesc:
\* every wired socket that the type does not declare is passed as well
BuildInput_Wired(res, element, inputDesc) ==
    [j \in DOMAIN inputDesc |->
        [key |-> inputDesc[j].key, val |-> InputValue(res, element, inputDesc[j])]]
    \o SelectSeq(
            [j \in DOMAIN element.incoming |->
                [key |-> element.incoming[j].key,
                 val |-> IF Get(res, element.incoming[j].val.elementId) = <<>>
                         THEN <<>>
                         ELSE Get(Get(res, element.incoming[j].val.elementId)[1],
                                  element.incoming[j].val.socket)]],
            LAMBDA e : \A d \in DOMAIN inputDesc : inputDesc[d].key # e.key)

\* the input record built by the for-in loop over inputDesc
BuildInput(res, element, inputDesc) ==
    [j \in DOMAIN inputDesc |->
        [key |-> inputDesc[j].key, val |-> InputValue(res, element, inputDesc[j])]]

\* some wired declared socket has no record of its producer: the throw
Missing(res, element, inputDesc) ==
    \E j \in DOMAIN inputDesc :
        /\ Has(element.incoming, inputDesc[j].key)
        /\ ~Obtained(res, element, inputDesc[j].key)

\* most invocations of one evaluator
MaxRuns == 2

EvalFrame == UNCHANGED <<graph, targetIds, frames, round, flat1, flat, ti,
                         stack, evalOrder, copies>>

\* a results Map kept across invocations: declared outside the closure
EvalStart_Hoisted ==
    /\ \/ pc = "bound"
       \/ pc = "done" /\ run < MaxRuns
    /\ pc' = "eval"
    /\ registry' = "standard"
    /\ run' = run + 1
    /\ results1' = results
    /\ results' = results
    /\ calls' = <<>>
    /\ ei' = 1
    /\ UNCHANGED error
    /\ EvalFrame

\* an invocation of the evaluator, the first or a later one of the same
\* closure: const results = new Map()
EvalStart ==
    /\ \/ pc = "bound"
       \/ pc = "done" /\ run < MaxRuns
    /\ pc' = "eval"
    /\ registry' = "standard"
    /\ run' = run + 1
    /\ results1' = results
    /\ results' = <<>>
    /\ calls' = <<>>
    /\ ei' = 1
    /\ UNCHANGED error
    /\ EvalFrame

\* one round of the for loop over evalOrder that reaches results.set
EvalStep ==
    /\ pc = "eval"
    /\ ei <= Len(evalOrder)
    /\ LET element == flat[evalOrder[ei]]
           inputDesc == TypeInput(element.typeId, element.config)
           input == BuildInput(results, element, inputDesc)
       IN  /\ ~Missing(results, element, inputDesc)
           /\ calls' = Append(calls,
                    [index |-> evalOrder[ei], input |-> input,
                     output |-> TypeEvaluate(element.typeId, input, element.config)])
           /\ results' = Put(results, element.elementId,
                             TypeEvaluate(element.typeId, input, element.config))
    /\ ei' = ei + 1
    /\ UNCHANGED <<pc, error, registry, run, results1>>
    /\ EvalFrame

\* if (!result) throw new Error(`BUG! Failed to obtain result from previous element`)
EvalFail ==
    /\ pc = "eval"
    /\ ei <= Len(evalOrder)
    /\ LET element == flat[evalOrder[ei]]
       IN  Missing(results, element, TypeInput(element.typeId, element.config))
    /\ error' = [kind |-> "invariant", id |-> ""]
    /\ pc' = "failed"
    /\ UNCHANGED <<registry, ei, results, calls, run, results1>>
    /\ EvalFrame

\* return results
EvalDone ==
    /\ pc = "eval"
    /\ ei > Len(evalOrder)
    /\ pc' = "done"
    /\ UNCHANGED <<error, registry, ei, results, calls, run, results1>>
    /\ EvalFrame

----------------------------------------------------------------------------
(* The graphs and target lists explored                                    *)

\* most wired sockets in a flat graph, and longest target list
MaxWires == 3
MaxTargets == 2

Sockets == {"a", "b"}

\* an id that no element has
NoSuchId == "nx"

\* flat graphs: three nodes, n1 a constant, n2 a one-term sum, n3 a product,
\* wired to each other or to an id that no element has
FlatIds == {"n1", "n2", "n3"}

Wirings(self) ==
    LET producers == (FlatIds \ {self}) \cup {NoSuchId}
    IN  {<<>>}
        \cup { << Wire(s, x, "output") >> : s \in Sockets, x \in producers }
        \cup { << Wire("a", x, "output"), Wire("b", y, "output") >> :
                    x \in producers, y \in producers }

FlatGraphs ==
    { << NodeElement("n1", "const", NumConfig(42), w1),
         NodeElement("n2", "sum", NumConfig(1), w2),
         NodeElement("n3", "math", OpConfig("*"), w3) >> :
        <<w1, w2, w3>> \in
            { w \in Wirings("n1") \X Wirings("n2") \X Wirings("n3") :
                Len(w[1]) + Len(w[2]) + Len(w[3]) <= MaxWires } }

\* the graph of the usage example
ExampleGraph ==
    << NodeElement("const/a", "const", NumConfig(42), <<>>),
       NodeElement("const/b", "const", NumConfig(17), <<>>),
       NodeElement("math/add", "math", OpConfig("*"),
                   << Wire("a", "const/a", "output"),
                      Wire("b", "const/b", "output") >>) >>

\* the graph of the usage example with a frame around its constants
FramedGraph ==
    << ExampleGraph[1], ExampleGraph[2],
       FrameElement("frame/consts", <<"const/a", "const/b">>),
       ExampleGraph[3] >>

\* a consumer wired to the two outputs of one producer
FieldsGraph ==
    << NodeElement("s", "sum", NumConfig(2), <<>>),
       NodeElement("d", "math", OpConfig("-"),
                   << Wire("a", "s", "output"), Wire("b", "s", "count") >>) >>

\* nested graphs: a producer p, a frame, a group g and a consumer m; g holds
\* its markers gi and go, a node q and, optionally, a group h that holds
\* its markers hi and ho and a node r.  `lacks` names a marker left out.
InnerGroup(hin, htarget, rw, lacks) ==
    GroupElement("h", hin,
        (IF lacks = "hi" THEN <<>> ELSE << GroupInputElement("hi", << GroupInputExport("y") >>) >>)
        \o (IF lacks = "ho" THEN <<>>
            ELSE << GroupOutputElement("ho", << GroupOutputExport("o", htarget) >>) >>)
        \o << NodeElement("r", "sum", NumConfig(1), rw) >>)

OuterGroup(gin, gtarget, qw, inner, lacks) ==
    GroupElement("g", gin,
        (IF lacks = "gi" THEN <<>> ELSE << GroupInputElement("gi", << GroupInputExport("x") >>) >>)
        \o (IF lacks = "go" THEN <<>>
            ELSE << GroupOutputElement("go", << GroupOutputExport("o", gtarget) >>) >>)
        \o << NodeElement("q", "sum", NumConfig(1), qw) >>
        \o inner)

NestedGraph(mw, group) ==
    << NodeElement("p", "const", NumConfig(42), <<>>),
       FrameElement("f", <<"p", "g">>),
       group,
       NodeElement("m", "math", OpConfig("+"), mw) >>

ConsumerWirings == { << Wire("a", "g", "o") >>, << Wire("a", "p", "output") >> }
GroupWirings == { <<>>, << Wire("x", "p", "output") >> }
OuterTargets == { Ref("q", "output"), Ref("gi", "x"), Ref("h", "o"), Ref("g", "o") }
OuterNodeWirings == { <<>>, << Wire("a", "gi", "x") >>, << Wire("a", "h", "o") >> }
InnerWirings == { <<>>, << Wire("y", "gi", "x") >>, << Wire("y", "q", "output") >> }
InnerTargets == { Ref("r", "output"), Ref("hi", "y") }
InnerNodeWirings == { <<>>, << Wire("a", "hi", "y") >> }

InnerGroups ==
    { InnerGroup(hin, ht, rw, "") :
        hin \in InnerWirings, ht \in InnerTargets, rw \in InnerNodeWirings }

NestedGraphs ==
    { NestedGraph(mw, OuterGroup(gin, gt, qw, inner, "")) :
        mw \in ConsumerWirings, gin \in GroupWirings, gt \in OuterTargets,
        qw \in OuterNodeWirings,
        inner \in {<<>>} \cup { <<h>> : h \in InnerGroups } }

\* graphs with a group that lacks a boundary marker
LackingGraphs ==
    { NestedGraph(<< Wire("a", "g", "o") >>,
                  OuterGroup(<<>>, Ref("q", "output"), <<>>, inner, lacks)) :
        lacks \in {"gi", "go"},
        inner \in { <<>>, << InnerGroup(<<>>, Ref("r", "output"), <<>>, "") >> } }
    \cup
    { NestedGraph(<< Wire("a", "g", "o") >>,
                  OuterGroup(<<>>, Ref("q", "output"), <<>>,
                             << InnerGroup(<<>>, Ref("r", "output"), <<>>, lacks) >>, "")) :
        lacks \in {"hi", "ho"} }

\* a group whose markers have the ids gi and go, with one node
SiblingGroup(id, gin, node, target) ==
    GroupElement(id, gin,
        << GroupInputElement("gi", << GroupInputExport("x") >>),
           GroupOutputElement("go", << GroupOutputExport("o", target) >>),
           NodeElement(node, "sum", NumConfig(1), << Wire("a", "gi", "x") >>) >>)

\* graphs with two groups side by side whose subgraphs use the same marker ids
SiblingGraphs ==
    { << NodeElement("p", "const", NumConfig(42), <<>>),
         NodeElement("p2", "const", NumConfig(17), <<>>),
         SiblingGroup("g", gin, "q", Ref("q", "output")),
         SiblingGroup("g2", gin2, "q2", Ref("q2", "output")),
         NodeElement("m", "math", OpConfig("+"),
                     << Wire("a", "g", "o"), Wire("b", "g2", "o") >>) >> :
        gin \in { <<>>, << Wire("x", "p", "output") >> },
        gin2 \in { <<>>, << Wire("x", "p2", "output") >>, << Wire("x", "p", "output") >> } }

\* graphs with two groups whose output exports name each other
MutualGraphs ==
    { << NodeElement("p", "const", NumConfig(42), <<>>),
         SiblingGroup("g", << Wire("x", "p", "output") >>, "q", Ref("g2", "o")),
         SiblingGroup("g2", << Wire("x", "p", "output") >>, "q2", Ref("g", "o")),
         NodeElement("m", "math", OpConfig("+"), mw) >> :
        mw \in ConsumerWirings }

Graphs ==
    FlatGraphs \cup {ExampleGraph, FramedGraph, FieldsGraph}
    \cup NestedGraphs \cup LackingGraphs \cup SiblingGraphs \cup MutualGraphs

\* sequences of at most n members of S
RECURSIVE SeqsUpTo(_, _)
SeqsUpTo(S, n) ==
    IF n = 0 THEN {<<>>}
    ELSE SeqsUpTo(S, n - 1)
         \cup { Append(t, x) : t \in { u \in SeqsUpTo(S, n - 1) : Len(u) = n - 1 }, x \in S }

\* target lists: ids of the flat graph and an id that no element has
TargetLists(g) == SeqsUpTo({ g[i].elementId : i \in DOMAIN g } \cup {NoSuchId}, MaxTargets)

----------------------------------------------------------------------------
(* The pipeline of the usage example:                                      *)
(*     buildEvalGraph(flatten(graph), targetIds)(registry)                 *)

Init ==
    /\ graph \in Graphs
    /\ targetIds = <<>>
    /\ pc = "flatten"
    /\ error = [kind |-> "none", id |-> ""]
    /\ frames = << NewFrame(graph) >>
    /\ round = 1
    /\ flat1 = <<>>
    /\ flat = <<>>
    /\ ti = 1
    /\ stack = <<>>
    /\ evalOrder = <<>>
    /\ registry = "standard"
    /\ ei = 1
    /\ results = <<>>
    /\ calls = <<>>
    /\ run = 0
    /\ results1 = <<>>
    /\ copies = <<>>

Next ==
    \/ FlattenNode
    \/ FlattenSkip
    \/ FlattenGroup
    \/ FlattenGroupFail
    \/ FlattenRewrite
    \/ FlattenReturn
    \/ FlattenDone
    \/ Reflatten
    \/ \E ids \in TargetLists(flat) : BuildStart(ids)
    \/ BuildTarget
    \/ BuildTargetFail
    \/ BuildSkip
    \/ BuildVisit
    \/ BuildDone
    \/ EvalStart
    \/ EvalStep
    \/ EvalFail
    \/ EvalDone

Spec == Init /\ [][Next]_vars

\* the calls run on one thread that is never suspended for good: a call that
\* can take a step takes it
FairSpec == Spec /\ WF_vars(Next)

----------------------------------------------------------------------------
(* Vocabulary of the properties                                            *)

\* the elements of g that the incoming entries of g[i] name (by the lookup
\* of the order builder); entries naming no element of g name nothing
DepIdx(g, i) ==
    { Find(g, g[i].incoming[j].val.elementId) : j \in DOMAIN g[i].incoming } \ {0}

RECURSIVE Closure(_, _)
Closure(g, S) ==
    LET N == S \cup UNION { DepIdx(g, i) : i \in S }
    IN  IF N = S THEN S ELSE Closure(g, N)

Acyclic(g) == \A i \in DOMAIN g : i \notin Closure(g, DepIdx(g, i))

\* every incoming entry names an element of g
AllResolved(g) ==
    \A i \in DOMAIN g : \A j \in DOMAIN g[i].incoming :
        Find(g, g[i].incoming[j].val.elementId) # 0

\* the elements reachable from the requested targets, the targets included
Reachable(g, ids) ==
    Closure(g, { Find(g, ids[k]) : k \in DOMAIN ids } \ {0})

Pos(order, x) == CHOOSE k \in DOMAIN order : order[k] = x

Occurrences(order, x) == Cardinality({ k \in DOMAIN order : order[k] = x })

\* evaluate calls made for the element at index x of the flat graph
CallsOf(x) == Cardinality({ k \in DOMAIN calls : calls[k].index = x })

OrderBuilt == pc \in {"bound", "eval", "done"} \/ (pc = "failed" /\ error.kind = "invariant")

Flattened == pc = "flattened" /\ round = 1

\* the graphs of all nesting levels of g: g and the subgraphs of its groups
RECURSIVE Scopes(_)
Scopes(g) ==
    {g} \cup UNION { Scopes(g[i].graph) : i \in { j \in DOMAIN g : g[j].elementType = "group" } }

Groups(g) == { g[i] : i \in { j \in DOMAIN g : g[j].elementType = "group" } }

AllGroups(g) == UNION { Groups(s) : s \in Scopes(g) }

Marker(group, t) == group.graph[FindType(group.graph, t)]

Lacking(group) ==
    FindType(group.graph, "group-input") = 0 \/ FindType(group.graph, "group-output") = 0

\* a reference names a socket of an element of the scope s: the output of a node,
\* an export of a group's output marker, or an export of the scope's input marker
NamesSource(s, ref) ==
    \E i \in DOMAIN s :
        /\ s[i].elementId = ref.elementId
        /\ \/ s[i].elementType = "node" /\ ref.socket = "output"
           \/ /\ s[i].elementType = "group"
              /\ ~Lacking(s[i])
              /\ \E n \in DOMAIN Marker(s[i], "group-output").exports :
                    Marker(s[i], "group-output").exports[n].id = ref.socket
           \/ /\ s[i].elementType = "group-input"
              /\ \E n \in DOMAIN s[i].exports : s[i].exports[n].id = ref.socket

\* every reference of every level names a source of its own scope: entries of
\* a node or group name the scope that holds it, targets of an output marker
\* name the scope that holds the marker
WellScoped(g) ==
    \A s \in Scopes(g) : \A i \in DOMAIN s :
        /\ s[i].elementType \in {"node", "group"} =>
                \A j \in DOMAIN s[i].incoming : NamesSource(s, s[i].incoming[j].val)
        /\ s[i].elementType = "group-output" =>
                \A n \in DOMAIN s[i].exports : NamesSource(s, s[i].exports[n].target)

\* every export of every group's input marker is wired in the group's incoming
InputsWired(g) ==
    \A group \in AllGroups(g) :
        /\ ~Lacking(group)
        /\ \A n \in DOMAIN Marker(group, "group-input").exports :
                Has(group.incoming, Marker(group, "group-input").exports[n].id)

----------------------------------------------------------------------------
(* Properties                                                              *)

\* C1: in the order built from an acyclic flat graph, every element stands
\* at a strictly later position than every element of the flat graph that one
\* of its incoming entries names.
C1_TopologicalOrder ==
    (OrderBuilt /\ Acyclic(flat)) =>
        \A x \in Range(evalOrder) : \A d \in DepIdx(flat, x) :
            /\ d \in Range(evalOrder)
            /\ Pos(evalOrder, d) < Pos(evalOrder, x)

\* C2: running an order built from an acyclic flat graph whose wirings all
\* have a producer in the flat graph never raises the failure
\* 'BUG! Failed to obtain result from previous element'.
C2_NoInvariantFailure ==
    (Acyclic(flat) /\ AllResolved(flat)) =>
        ~(pc = "failed" /\ error.kind = "invariant")

\* C3: when every reference names a source of its own scope and every
\* exported group input is wired, every incoming entry of every node of the
\* flattened output names a node of that output (never a group or a marker).
C3_ResolvedToNodes ==
    (Flattened /\ WellScoped(graph) /\ InputsWired(graph)) =>
        \A i \in DOMAIN flat : \A j \in DOMAIN flat[i].incoming :
            Find(flat, flat[i].incoming[j].val.elementId) # 0

\* the consumers of an output of the group `group` of the scope s: a node of
\* s with an entry naming an export of the group whose target is a node
\* inside the group
ConsumersOf(s, group) ==
    LET exports == Marker(group, "group-output").exports
        nodes == { i \in DOMAIN s : s[i].elementType = "node" }
        all == UNION { { [scope |-> s, group |-> group, node |-> i, entry |-> j,
                          export |-> n] :
                            j \in DOMAIN s[i].incoming, n \in DOMAIN exports } :
                       i \in nodes }
    IN  { c \in all :
            /\ s[c.node].incoming[c.entry].val = Ref(group.elementId, exports[c.export].id)
            /\ \E k \in DOMAIN group.graph :
                    /\ group.graph[k].elementType = "node"
                    /\ group.graph[k].elementId = exports[c.export].target.elementId }

OutputConsumers(g) ==
    UNION { UNION { ConsumersOf(s, group) :
                        group \in { x \in Groups(s) : ~Lacking(x) } } :
            s \in Scopes(g) }

\* C4: after flatten, a node outside a group whose entry named an output
\* export of the group names the export's target, the producer inside the
\* group, and no element of the flat output is a group.
C4_GroupOutputResolved ==
    Flattened =>
        /\ \A c \in OutputConsumers(graph) :
              LET consumer == c.scope[c.node]
                  e == Marker(c.group, "group-output").exports[c.export]
              IN  /\ Find(flat, consumer.elementId) # 0
                  /\ Get(flat[Find(flat, consumer.elementId)].incoming,
                         consumer.incoming[c.entry].key) = << e.target >>
        /\ \A i \in DOMAIN flat : flat[i].elementType = "node"

C4_Witness ==
    /\ Flattened
    /\ \E c \in OutputConsumers(graph) : c.scope = graph
    /\ \E c \in OutputConsumers(graph) : c.scope # graph

\* the nodes of a graph, in order
NodesOf(g) == SelectSeq(g, LAMBDA e : e.elementType = "node")

\* C5: flatten returns a graph without groups as it is (the same nodes, in
\* the same order, with the same incoming maps), and flatten applied to a
\* flattened result returns that result.
C5_Idempotent ==
    /\ (Flattened /\ Groups(graph) = {}) => flat = NodesOf(graph)
    /\ (pc = "flattened" /\ round = 2) => flat = flat1

C5_Witness ==
    /\ pc = "flattened"
    /\ round = 2
    /\ Groups(graph) # {}
    /\ flat1 # <<>>
    /\ \E i \in DOMAIN flat1 : flat1[i] \notin Range(NodesOf(graph))

\* C6: every element reachable from the targets stands exactly once in the
\* built order, and a run of the evaluator, once it has ended, has called its
\* evaluate exactly once.  Stated for the flat graphs on which a run can
\* succeed at all: acyclic, every wiring with a producer in the flat graph.
C6_ExactlyOnce ==
    (Acyclic(flat) /\ AllResolved(flat)) =>
        /\ OrderBuilt =>
              \A x \in Reachable(flat, targetIds) : Occurrences(evalOrder, x) = 1
        /\ (pc = "done" \/ (pc = "failed" /\ error.kind = "invariant")) =>
              \A x \in Reachable(flat, targetIds) : CallsOf(x) = 1

\* C7: after a successful run the keys of the result map are exactly the ids
\* of the elements reachable from the targets.
C7_ResultKeys ==
    pc = "done" =>
        Keys(results) = { flat[x].elementId : x \in Reachable(flat, targetIds) }

C7_Witness ==
    /\ pc = "done"
    /\ \E x \in Reachable(flat, targetIds) :
            flat[x].elementId \notin Range(targetIds)
    /\ \E x \in DOMAIN flat : x \notin Reachable(flat, targetIds)

\* the first id of the target list that no element of the flat graph has
MissingTargets == { k \in DOMAIN targetIds : Find(flat, targetIds[k]) = 0 }

FirstMissing == CHOOSE k \in MissingTargets : \A j \in MissingTargets : k <= j

\* C8: with a target id that no element of the flat graph has, the call
\* of buildEvalGraph never returns an evaluator and no result map is made;
\* its failure is the lookup error naming the first such id.
C8_MissingTargetFails ==
    (pc \notin {"flatten", "flattened"} /\ MissingTargets # {}) =>
        /\ pc \in {"build", "failed"}
        /\ results = <<>>
        /\ pc = "failed" => error = [kind |-> "lookup", id |-> targetIds[FirstMissing]]

C8_Witness ==
    /\ pc = "failed"
    /\ error.kind = "lookup"
    /\ FirstMissing = 2
    /\ evalOrder # <<>>

\* C9: for a graph with a group, at any depth, that lacks its input or its
\* output marker, flatten returns no flat collection; its failure is the
\* structural error naming such a group.
C9_LackingGroupFails ==
    (\E group \in AllGroups(graph) : Lacking(group)) =>
        /\ pc \in {"flatten", "failed"}
        /\ flat = <<>>
        /\ pc = "failed" =>
              /\ error.kind = "structural"
              /\ \E group \in AllGroups(graph) :
                    Lacking(group) /\ group.elementId = error.id

C9_Witness ==
    /\ pc = "failed"
    /\ error = [kind |-> "structural", id |-> "h"]

\* C10: every declared input socket of a processed element that has no
\* entry in the element's incoming map is passed the default its descriptor
\* declares.
C10_DefaultForUnwired ==
    \A k \in DOMAIN calls :
        LET element == flat[calls[k].index]
            inputDesc == TypeInput(element.typeId, element.config)
        IN  \A j \in DOMAIN inputDesc :
                ~Has(element.incoming, inputDesc[j].key) =>
                    Get(calls[k].input, inputDesc[j].key) = << << inputDesc[j].val.default >> >>

C10_Witness ==
    \E k \in DOMAIN calls :
        /\ flat[calls[k].index].typeId = "sum"
        /\ flat[calls[k].index].incoming = <<>>
        /\ Get(calls[k].input, "a") = << << 5 >> >>

\* every wired declared socket of every call of the current run was passed
\* the field its wiring names of the record that the producer's evaluate
\* returned earlier in the same run
WiredFromThisRun ==
    \A k \in DOMAIN calls :
        LET element == flat[calls[k].index]
            inputDesc == TypeInput(element.typeId, element.config)
        IN  \A j \in DOMAIN inputDesc :
                Has(element.incoming, inputDesc[j].key) =>
                    LET ref == Get(element.incoming, inputDesc[j].key)[1]
                    IN  \E p \in 1..(k - 1) :
                            /\ flat[calls[p].index].elementId = ref.elementId
                            /\ Get(calls[k].input, inputDesc[j].key) =
                                    << Get(calls[p].output, ref.socket) >>

\* C11: a declared socket wired to (producer, socket) is passed the field
\* `socket` of the record the producer's evaluate returned in the same run;
\* the constants 42 and 17 wired into a multiply node give 714.
C11_WiredInputs ==
    /\ WiredFromThisRun
    /\ (pc = "done" /\ graph = ExampleGraph /\ targetIds = <<"math/add">>) =>
            Get(results, "math/add") = << << [key |-> "output", val |-> 714] >> >>

C11_Witness ==
    /\ pc = "done"
    /\ graph = FieldsGraph
    /\ Get(results, "d") = << << [key |-> "output", val |-> 10] >> >>

\* C12: a second invocation of the same evaluator starts from an empty
\* results map, calls evaluate for every element of the order again, reads
\* only records made in that invocation, and returns a map equal to the
\* first one.
C12_FreshRuns ==
    /\ (pc = "eval" /\ ei = 1) => results = <<>>
    /\ (pc = "eval" /\ run >= 2) => WiredFromThisRun
    /\ (pc = "done" /\ run >= 2) =>
            /\ results = results1
            /\ Len(calls) = Len(evalOrder)
            /\ \A k \in DOMAIN calls : calls[k].index = evalOrder[k]

C12_Witness ==
    /\ pc = "done"
    /\ run = 2
    /\ Len(calls) >= 2
    /\ \E k \in DOMAIN calls : \E j \in DOMAIN calls[k].input :
            Has(flat[calls[k].index].incoming, calls[k].input[j].key)

\* C13: with an empty target list the built order is empty for any flat
\* graph, and the evaluator returns an empty map without a call of evaluate.
C13_EmptyTargets ==
    (pc \in {"build", "bound", "eval", "done", "failed"} /\ targetIds = <<>>
        /\ error.kind # "structural") =>
            /\ evalOrder = <<>>
            /\ stack = <<>>
            /\ calls = <<>>
            /\ results = <<>>
            /\ pc # "failed"

C13_Witness ==
    /\ pc = "done"
    /\ targetIds = <<>>
    /\ Len(flat) >= 3

\* the nodes of all nesting levels of the scope s from its i-th element on, in
\* traversal order (a group's nodes at the group's position), each with the
\* group that holds it (none at the top level) and the scope that holds
\* that group
RECURSIVE Origins(_, _, _, _)
Origins(s, i, encl, outer) ==
    IF i > Len(s) THEN <<>>
    ELSE (IF s[i].elementType = "node"
          THEN << [element |-> s[i], encl |-> encl, outer |-> outer] >>
          ELSE IF s[i].elementType = "group"
               THEN Origins(s[i].graph, 1, << s[i] >>, s)
               ELSE <<>>)
         \o Origins(s, i + 1, encl, outer)

\* the reference names the output of a node of the scope s
NamesNode(s, ref) ==
    \E i \in DOMAIN s :
        /\ s[i].elementType = "node"
        /\ s[i].elementId = ref.elementId
        /\ ref.socket = "output"

\* C14: after flatten, an entry of a node inside a group that named an export
\* of the group's input marker names what the node's own enclosing group
\* has in incoming under that export (here: a node next to the group), also
\* when another group of the graph uses the same ids in its subgraph.
C14_GroupInputForwarded ==
    Flattened =>
        LET origins == Origins(graph, 1, <<>>, <<>>)
        IN  /\ Len(flat) = Len(origins)
            /\ \A i \in DOMAIN origins :
                origins[i].encl # <<>> =>
                    LET group == origins[i].encl[1]
                        groupIn == Marker(group, "group-input")
                        incoming == origins[i].element.incoming
                    IN  \A j \in DOMAIN incoming :
                            ( /\ incoming[j].val.elementId = groupIn.elementId
                              /\ \E n \in DOMAIN groupIn.exports :
                                    groupIn.exports[n].id = incoming[j].val.socket
                              /\ Has(group.incoming, incoming[j].val.socket)
                              /\ NamesNode(origins[i].outer,
                                           Get(group.incoming, incoming[j].val.socket)[1]) )
                            => Get(flat[i].incoming, incoming[j].key)
                                    = Get(group.incoming, incoming[j].val.socket)

\* C15: the flat output holds exactly the nodes of every nesting level, in
\* traversal order with a group's nodes at the group's position; it holds no
\* frame, group or marker, and a node's fields other than incoming (and the
\* sockets that incoming has entries for) are those of the input.
C15_NodesInTraversalOrder ==
    Flattened =>
        LET origins == Origins(graph, 1, <<>>, <<>>)
        IN  /\ Len(flat) = Len(origins)
            /\ \A i \in DOMAIN flat :
                /\ flat[i].elementType = "node"
                /\ [flat[i] EXCEPT !.incoming = origins[i].element.incoming]
                        = origins[i].element
                /\ Keys(flat[i].incoming) = Keys(origins[i].element.incoming)

C15_Witness ==
    /\ Flattened
    /\ \E i \in DOMAIN graph : graph[i].elementType = "frame"
    /\ \E group \in Groups(graph) : Groups(group.graph) # {}
    /\ Len(flat) = 4
    /\ flat[1].elementId = "p" /\ flat[4].elementId = "m"

\* an entry of g[i] that names no element of g
Dangling(g, i) ==
    { j \in DOMAIN g[i].incoming : Find(g, g[i].incoming[j].val.elementId) = 0 }

\* C16: an incoming entry that names no element of the flat graph never makes
\* the order builder fail; the builder returns, and its order holds what is
\* reachable through the other entries, those after the skipped one too.
C16_DanglingSkipped ==
    /\ (pc = "failed" /\ error.kind = "lookup") =>
            MissingTargets # {} /\ error.id = targetIds[FirstMissing]
    /\ (pc \in {"bound", "eval", "done"}
            /\ \E i \in Reachable(flat, targetIds) : Dangling(flat, i) # {}) =>
            /\ Range(evalOrder) = Reachable(flat, targetIds)
            /\ stack = <<>>

C16_Witness ==
    /\ pc = "bound"
    /\ \E i \in Range(evalOrder) :
            /\ 1 \in Dangling(flat, i)
            /\ 2 \in DOMAIN flat[i].incoming \ Dangling(flat, i)
            /\ Find(flat, flat[i].incoming[2].val.elementId) \in Range(evalOrder) \ {i}
            /\ flat[Find(flat, flat[i].incoming[2].val.elementId)].elementId
                    \notin Range(targetIds)

\* C17: the traversal of the order builder ends for every flat graph and
\* target list, cyclic flat graphs included: no element is in the order
\* twice, and a started traversal leads to an empty stack with the builder
\* returned or failed on a target.
C17_TraversalTerminates ==
    /\ [](\A x \in Range(evalOrder) : Occurrences(evalOrder, x) = 1)
    /\ (pc = "build") ~> (pc \in {"bound", "failed"} /\ stack = <<>>)

C17_Witness ==
    /\ pc = "bound"
    /\ \E i \in Range(evalOrder) : i \in Closure(flat, DepIdx(flat, i))
    /\ \E i \in Range(evalOrder) : i \in DepIdx(flat, i)

\* the redirects that one call of flatten registers for the first n elements
\* of its graph s
RECURSIVE Table(_, _)
Table(s, n) ==
    IF n = 0 THEN <<>>
    ELSE IF s[n].elementType = "group" /\ ~Lacking(s[n])
         THEN SetOutputRedirects(
                SetInputRedirects(Table(s, n - 1), Marker(s[n], "group-input"), s[n], 1),
                Marker(s[n], "group-output"), s[n], 1)
         ELSE Table(s, n - 1)

\* the keys that the target of key k is, if k has a target
Follow(T, k) ==
    LET to == RedirectTo(T, Ref(k[1], k[2]))
    IN  IF to = <<>> THEN {} ELSE { RedirectKey(to[1].elementId, to[1].socket) }

RECURSIVE Chain(_, _)
Chain(T, S) ==
    LET N == S \cup UNION { Follow(T, k) : k \in S }
    IN  IF N = S THEN S ELSE Chain(T, N)

\* the keys of T that a chain of redirects leads back to
CyclicKeys(T) == { k \in Keys(T) : k \in Chain(T, Follow(T, k)) }

\* some call of flatten on g registers a cyclic chain of redirects
CyclicRedirects(g) == \E s \in Scopes(g) : CyclicKeys(Table(s, Len(s))) # {}

\* no entry of the nodes matches a key of T that has a target
Settled(T, nodes) ==
    \A i \in DOMAIN nodes : \A j \in DOMAIN nodes[i].incoming :
        RedirectTo(T, nodes[i].incoming[j].val) = <<>>

\* C18: for a graph whose redirects have no cyclic chain, flatten's rewrite
\* loop ends (flatten returns, or fails on a group without markers), and when
\* a call of flatten returns, no incoming entry of the nodes it returns
\* matches a key of that call's redirect table that has a target.
C18_RewriteConverges ==
    /\ [][ (Rewriting /\ pc' = "flattened") => Settled(Top.redirects, flat') ]_vars
    /\ [][ (Rewriting /\ pc' = "flatten" /\ Len(frames') < Len(frames)) =>
                /\ Top.redirects = Table(Top.graph, Len(Top.graph))
                /\ LET returned == frames'[Len(frames')].flattened
                       n == Len(Top.flattened)
                   IN  Settled(Top.redirects,
                               SubSeq(returned, Len(returned) - n + 1, Len(returned))) ]_vars
    /\ (pc = "flatten" /\ ~CyclicRedirects(graph)) ~> (pc \in {"flattened", "failed"})

C18_Witness ==
    /\ Flattened
    /\ ~CyclicRedirects(graph)
    /\ \E group \in Groups(graph) :
            /\ ~Lacking(group)
            /\ Marker(group, "group-output").exports[1].target = Ref("gi", "x")
    /\ \E i \in DOMAIN graph : /\ graph[i].elementId = "m"
                               /\ Get(graph[i].incoming, "a") = << Ref("g", "o") >>
    /\ \E i \in DOMAIN flat : /\ flat[i].elementId = "m"
                              /\ Get(flat[i].incoming, "a") = << Ref("p", "output") >>

\* some entry of the nodes collected by the call f is redirected, by the
\* call's table, into a cyclic chain of that table
Hooked(f) ==
    \E i \in DOMAIN f.flattened : \E j \in DOMAIN f.flattened[i].incoming :
        LET ref == f.flattened[i].incoming[j].val
        IN  Chain(f.redirects, { RedirectKey(ref.elementId, ref.socket) })
                \cap CyclicKeys(f.redirects) # {}

\* C19 as stated: when the redirects registered for a graph form a cyclic
\* chain, flatten never returns.
C19_CyclicNeverReturns ==
    CyclicRedirects(graph) => pc \in {"flatten", "failed"}

\* C19, amended: when an incoming entry of a node collected by a call of
\* flatten leads into a cyclic chain of that call's redirects, every pass of
\* the rewrite loop sets `changed`, the loop goes on with such an entry, and
\* the call never returns.
C19_HookedNeverReturns ==
    /\ [][ (Rewriting /\ Hooked(Top)) =>
                /\ Changed(Top.redirects, Top.flattened)
                /\ Rewriting'
                /\ Len(frames') = Len(frames)
                /\ Hooked(Top)' ]_vars
    /\ []((Rewriting /\ Hooked(Top)) => [](pc = "flatten" /\ frames # <<>>))

C19_Witness ==
    /\ Rewriting
    /\ Hooked(Top)
    /\ graph \in MutualGraphs
    /\ \E i \in DOMAIN Top.flattened :
            Get(Top.flattened[i].incoming, "a") = << Ref("g2", "o") >>

\* C20: flatten leaves its input as it was, at every nesting level, whether
\* it returns or fails; every record that flatten holds or returns without
\* having made it is an element of the input with its content, so that
\* rewritten references are in records made by flatten only.
C20_InputUnchanged ==
    /\ [][graph' = graph]_vars
    /\ [](\A n \in DOMAIN frames :
            /\ Len(frames[n].fresh) = Len(frames[n].flattened)
            /\ \A k \in DOMAIN frames[n].flattened :
                    ~frames[n].fresh[k] =>
                        \E o \in Range(Origins(frames[n].graph, 1, <<>>, <<>>)) :
                            frames[n].flattened[k] = o.element)
    /\ [](Flattened =>
            /\ Len(copies) = Len(flat)
            /\ \A i \in DOMAIN flat :
                    ~copies[i] => flat[i] = Origins(graph, 1, <<>>, <<>>)[i].element)

C20_Witness ==
    /\ Flattened
    /\ \E i \in DOMAIN flat :
            copies[i] /\ flat[i] # Origins(graph, 1, <<>>, <<>>)[i].element
    /\ \E i \in DOMAIN flat : ~copies[i]
    /\ \E i \in DOMAIN flat :
            copies[i] /\ flat[i] = Origins(graph, 1, <<>>, <<>>)[i].element

\* the entries of the node of origin o that name an export of the input
\* marker of o's group for which the group's incoming has no entry
UnfedEntries(o) ==
    IF o.encl = <<>> \/ Lacking(o.encl[1]) THEN {}
    ELSE LET group == o.encl[1]
             groupIn == Marker(group, "group-input")
             incoming == o.element.incoming
         IN  { j \in DOMAIN incoming :
                /\ incoming[j].val.elementId = groupIn.elementId
                /\ \E n \in DOMAIN groupIn.exports :
                        groupIn.exports[n].id = incoming[j].val.socket
                /\ ~Has(group.incoming, incoming[j].val.socket) }

\* such an entry on a socket that the node's type declares for its config
UnfedDeclared(o) ==
    { j \in UnfedEntries(o) :
        \E d \in DOMAIN TypeInput(o.element.typeId, o.element.config) :
            TypeInput(o.element.typeId, o.element.config)[d].key
                = o.element.incoming[j].key }

\* C21: when a group's incoming has no entry for an export of its input
\* marker, flatten leaves the references of the group's nodes to that export
\* as they are and no element of the flat graph has the marker's id; a run
\* that reaches a node whose type declares the socket of such a reference
\* fails with the invariant error: evaluate is never called for that node
\* and the run does not complete.
C21_UnfedInputFails ==
    LET origins == Origins(graph, 1, <<>>, <<>>)
    IN  Len(flat) = Len(origins) =>
            /\ \A i \in DOMAIN origins : \A j \in UnfedEntries(origins[i]) :
                    /\ flat[i].incoming[j] = origins[i].element.incoming[j]
                    /\ Find(flat, origins[i].element.incoming[j].val.elementId) = 0
            /\ \A k \in DOMAIN calls : UnfedDeclared(origins[calls[k].index]) = {}
            /\ pc = "done" =>
                    \A x \in Range(evalOrder) : UnfedDeclared(origins[x]) = {}
            /\ (pc = "eval" /\ ei <= Len(evalOrder)
                    /\ UnfedDeclared(origins[evalOrder[ei]]) # {}) =>
                    Missing(results, flat[evalOrder[ei]],
                            TypeInput(flat[evalOrder[ei]].typeId,
                                      flat[evalOrder[ei]].config))

\* the socket names that the type of flat[x] declares for its config
Declared(x) ==
    { TypeInput(flat[x].typeId, flat[x].config)[d].key :
        d \in DOMAIN TypeInput(flat[x].typeId, flat[x].config) }

\* the elements that flat[x] names on sockets its type does not declare
UndeclaredDeps(x) ==
    { Find(flat, flat[x].incoming[j].val.elementId) :
        j \in { i \in DOMAIN flat[x].incoming : flat[x].incoming[i].key \notin Declared(x) } }
    \ {0}

\* the elements that flat[x] names on sockets its type declares
DeclaredDeps(x) ==
    { Find(flat, flat[x].incoming[j].val.elementId) :
        j \in { i \in DOMAIN flat[x].incoming : flat[x].incoming[i].key \in Declared(x) } }
    \ {0}

\* C22: an entry on a socket that the element's type does not declare for
\* its config puts the producer it names, and what the producer depends on,
\* in the order and, when the run completes, in the result map with a call
\* of evaluate each; the input record of every call holds exactly the
\* declared socket names, so the producer's value is not passed.
C22_UndeclaredSocket ==
    /\ \A k \in DOMAIN calls :
            [j \in DOMAIN calls[k].input |-> calls[k].input[j].key]
                = [d \in DOMAIN TypeInput(flat[calls[k].index].typeId,
                                          flat[calls[k].index].config) |->
                        TypeInput(flat[calls[k].index].typeId,
                                  flat[calls[k].index].config)[d].key]
    /\ OrderBuilt =>
            \A x \in Range(evalOrder) : \A p \in UndeclaredDeps(x) :
                Closure(flat, {p}) \subseteq Range(evalOrder)
    /\ pc = "done" =>
            \A x \in Range(evalOrder) : \A p \in UndeclaredDeps(x) :
                \A y \in Closure(flat, {p}) :
                    /\ flat[y].elementId \in Keys(results)
                    /\ CallsOf(y) >= 1

C22_Witness ==
    /\ pc = "done"
    /\ \E x \in Range(evalOrder) : \E p \in UndeclaredDeps(x) :
            /\ p # x
            /\ flat[p].elementId \notin Range(targetIds)
            /\ \A y \in Range(evalOrder) : p \notin DeclaredDeps(y)
            /\ DeclaredDeps(x) # {}
            /\ Closure(flat, {p}) # {p}
            /\ flat[p].elementId \in Keys(results)

====
